---- MODULE Spec2Model ----
(***************************************************************************)
(* Model of the MCP aggregating proxy (mcp-proxy.ts, client.ts,            *)
(* metrics-manager.ts, health-monitor.ts).                                 *)
(*                                                                         *)
(* One step of the model is the code that runs between two suspension      *)
(* points of the single-threaded executor: the arrival of a downstream     *)
(* request up to its first await, the arrival of one upstream reply (or    *)
(* the firing of the timeout raced against it) up to the next await of the *)
(* same handler, one timer tick, one transport callback.  A backoff sleep  *)
(* followed by the re-issued upstream request changes no proxy state and   *)
(* is folded into the step of the reply that follows it.                   *)
(***************************************************************************)
EXTENDS Integers, Sequences, FiniteSets, TLC

\* ------------------------------------------------------------------ bounds
\* number of downstream requests admitted in one behaviour
MaxRequests == 2
\* number of timer ticks and transport callbacks in one behaviour
MaxEvents == 1
\* number of round-robin selections remembered
PickWindow == 4
\* number of servers in config.servers
MaxServers == 2
\* length of the env allow-list of a stdio server
MaxEnvLen == 2

\* ------------------------------------------------------------- universes
Upstreams == {"A", "Example Server 3"}
\* upstreams configured with transport.type = 'sse'
SseUpstreams == {"Example Server 3"}
Names == {"t1"}

\* the names a routing table can hold: those of Names and one more, listed
\* and asked for in the rebuild specification only
AllNames == Names \cup {"t2"}
\* downstream requests that can be in flight at the same time
Slots == {"r1", "r2"}
\* the slot used when the downstream client sends one request at a time
SeqSlots == {"r1"}

NoClient == "none"
\* params.cursor of a request that carries none
NoCursor == "none"
\* params.cursor of the requests of a list-only workload
Cursors == {NoCursor, "c1"}
NoError == << >>

ListOps == {"tools/list", "prompts/list", "resources/list", "resources/templates/list"}
TargetOps == {"tools/call", "prompts/get", "resources/read"}

KindOf(op) ==
  CASE op \in {"tools/list", "tools/call"} -> "tool"
    [] op \in {"prompts/list", "prompts/get"} -> "prompt"
    [] op \in {"resources/list", "resources/read"} -> "resource"
    [] OTHER -> "template"

EntityWord(op) ==
  CASE op = "tools/call" -> "Tool"
    [] op = "prompts/get" -> "Prompt"
    [] OTHER -> "Resource"

\* ---------------------------------------------------------- error messages
\* A message is the sequence of its words; String.includes is a search for
\* a contiguous run of words.
ConnRefused == <<"ECONNREFUSED">>
RequestTimeout == <<"Request", "timeout">>
InvalidParams == <<"Invalid", "parameters">>
ToolNotFound(n) == <<"Tool", n, "not", "found">>
ConnectionClosed == <<"Connection", "closed">>
SseClosed == <<"SSE", "connection", "closed">>
ConnectionLost == <<"Connection", "lost">>
NotAvailable(op, n) ==
  <<EntityWord(op), n, "is", "not", "available", "on", "any", "connected", "server">>
NotSupported(n, s) == <<"Tool", n, "is", "not", "supported", "by", "server", s>>

Includes(msg, pat) ==
  \E i \in 1..(Len(msg) - Len(pat) + 1) : SubSeq(msg, i, i + Len(pat) - 1) = pat

isConnectionError(msg) ==
  \/ Includes(msg, <<"Connection">>)
  \/ Includes(msg, <<"timeout">>)
  \/ Includes(msg, <<"ECONNREFUSED">>)
  \/ Includes(msg, <<"ENOTFOUND">>)

isToolNotFound(msg) == Includes(msg, <<"Tool">>) /\ Includes(msg, <<"not", "found">>)

\* errors an upstream call can end with: what the upstream answers, or the
\* rejection of the timer raced against the request
UpstreamErrors(op, n) ==
  IF op \in {"tools/call", "prompts/get", "resources/read"}
    THEN {ConnRefused, InvalidParams} \cup (IF op = "tools/call" THEN {ToolNotFound(n)} ELSE {})
    ELSE {RequestTimeout, InvalidParams}

\* ------------------------------------------------------------------ state
VARIABLES
  isConnected,        \* ConnectedClient.isConnected, per upstream
  lastError,          \* ConnectedClient.lastError, per upstream
  failureCounts,      \* consecutive connection failures, per upstream
  metrics,            \* MetricsManager.metrics, per upstream
  healthChecks,       \* HealthMonitor.healthChecks, per upstream
  toolToClientMap,
  promptToClientMap,
  resourceToClientMap,
  req,                \* the downstream requests in flight, per slot
  offers,             \* environment: the names each upstream lists at present
  nreq,               \* downstream requests admitted so far
  nev,                \* timer ticks and transport callbacks so far
  servers,            \* SmartSelector: the availableServers handed to the selector
  currentIndex,       \* RoundRobinStrategy.currentIndex
  selected,           \* SmartSelector: selectedServer of the last selection
  picks,              \* the names round-robin returned since the healthy set last changed
  config,             \* config.servers as createClients receives it
  boot,               \* createClients: its position, locals and result
  late                \* upstream requests that lost the race against their timer

vars == <<isConnected, lastError, failureCounts, metrics, healthChecks,
          toolToClientMap, promptToClientMap, resourceToClientMap, req, offers, nreq, nev,
          servers, currentIndex, selected, picks, config, boot, late>>

clientVars == <<isConnected, lastError>>
mapVars == <<toolToClientMap, promptToClientMap, resourceToClientMap>>
selVars == <<servers, currentIndex, selected, picks>>
bootVars == <<config, boot>>
auxVars == <<servers, currentIndex, selected, picks, config, boot, late>>
proxyVars == <<isConnected, lastError, failureCounts, metrics, healthChecks,
               toolToClientMap, promptToClientMap, resourceToClientMap, req, offers, nreq, nev,
               late>>

\* createClients before it is called, and in a run that starts after it
NoBoot ==
  [pc |-> "returned", i |-> 0, count |-> 0, clients |-> << >>, attempts |-> << >>,
   connected |-> << >>, env |-> {}, hasEnv |-> FALSE]

\* --------------------------------------------------------- MetricsManager
\* A rate is the pair <<numerator, denominator>> of the quotient the code
\* computes; a zero denominator is the NaN of 0/0, equal to nothing.
One == <<1, 1>>
Zero == <<0, 1>>

RateEq(a, b) == a[2] # 0 /\ b[2] # 0 /\ a[1] * b[2] = b[1] * a[2]

\* 1 - (errorCount / totalRequests)
successRateOf(errorCount, totalRequests) == <<totalRequests - errorCount, totalRequests>>

\* a record of this.metrics with the reliabilityScore stored for it in
\* this.qualityScores; present is FALSE when the maps hold nothing for the name
NoMetrics ==
  [present |-> FALSE, isHealthy |-> FALSE, totalRequests |-> 0, errorCount |-> 0,
   successRate |-> Zero, reliabilityScore |-> Zero]

calculateReliabilityScore(rec) == IF ~rec.isHealthy THEN Zero ELSE rec.successRate

updateQualityScore(m, s) ==
  IF ~m[s].present
    THEN m
    ELSE [m EXCEPT ![s].reliabilityScore = calculateReliabilityScore(m[s])]

initialMetrics ==
  [present |-> TRUE, isHealthy |-> TRUE, totalRequests |-> 0, errorCount |-> 0,
   successRate |-> One, reliabilityScore |-> One]

initializeServer(m, s) == [m EXCEPT ![s] = initialMetrics]

\* a recordRequest that leaves errorCount alone
recordRequestNoError(m, s, success) ==
  IF ~m[s].present
    THEN initializeServer(m, s)
    ELSE updateQualityScore(
           [m EXCEPT ![s].totalRequests = @ + 1,
                     ![s].successRate =
                       successRateOf(m[s].errorCount, m[s].totalRequests + 1)], s)

\* recordRequest: a sample for a server without a record creates the record
\* and is not counted
recordRequest(m, s, success) ==
  IF ~m[s].present
    THEN initializeServer(m, s)
    ELSE LET errors == IF success THEN m[s].errorCount ELSE m[s].errorCount + 1
         IN updateQualityScore(
              [m EXCEPT ![s].totalRequests = @ + 1,
                        ![s].errorCount = errors,
                        ![s].successRate = successRateOf(errors, m[s].totalRequests + 1)], s)

\* a markServerUnhealthy that counts the failed check as a failed request
markServerUnhealthyCounting(m, s) ==
  IF m[s].present
    THEN updateQualityScore([m EXCEPT ![s].isHealthy = FALSE, ![s].errorCount = @ + 1], s)
    ELSE m

\* a markServerUnhealthy that leaves the stored score as it was
markServerUnhealthyStale(m, s) ==
  IF m[s].present THEN [m EXCEPT ![s].isHealthy = FALSE] ELSE m

markServerUnhealthy(m, s) ==
  IF m[s].present THEN updateQualityScore([m EXCEPT ![s].isHealthy = FALSE], s) ELSE m

markServerHealthy(m, s) ==
  IF m[s].present THEN updateQualityScore([m EXCEPT ![s].isHealthy = TRUE], s) ELSE m

\* ---------------------------------------------------------- HealthMonitor
maxConsecutiveFailures == 5

shouldMarkUnhealthy(s, consecutiveFailures) ==
  consecutiveFailures >= maxConsecutiveFailures

\* a manual trigger that does not look at isConnected
triggerOutcomeAlwaysHealthy(conn, lerr) == [isHealthy |-> TRUE, errorMessage |-> NoError]

\* the outcome of the manual trigger for a client with these fields
triggerOutcome(conn, lerr) ==
  IF ~conn
    THEN [isHealthy |-> FALSE,
          errorMessage |-> IF lerr # NoError THEN lerr ELSE ConnectionLost]
    ELSE [isHealthy |-> TRUE, errorMessage |-> NoError]

\* a periodic check that finds every client healthy
checkOutcomeAlwaysHealthy(s, conn, lerr) == [isHealthy |-> TRUE, errorMessage |-> NoError]

\* the outcome of the periodic check
checkOutcome(s, conn, lerr) ==
  IF ~conn
    THEN [isHealthy |-> FALSE,
          errorMessage |-> IF lerr # NoError THEN lerr ELSE ConnectionLost]
    ELSE IF s = "Example Server 3" /\ lerr # NoError
      THEN [isHealthy |-> FALSE, errorMessage |-> lerr]
      ELSE [isHealthy |-> TRUE, errorMessage |-> NoError]

\* the Metrics Store after a check with this outcome
metricsAfterCheck(m, s, outcome) ==
  IF outcome.isHealthy THEN markServerHealthy(m, s) ELSE markServerUnhealthy(m, s)

\* ------------------------------------------------------------ mcp-proxy
\* a fan-out over every client, connected or not
getHealthyClientsAll(conn) == Upstreams

\* the clients a fan-out is sent to
getHealthyClients(conn) == {s \in Upstreams : conn[s]}

\* executeWithRetry: maxRetries of a call made by the handler of op; the
\* list fan-outs, the rebuild fan-outs, prompts/get and resources/read use
\* the default
MaxRetriesOf(op, phase) ==
  IF op = "tools/call" /\ phase = "dispatch" THEN 1 ELSE 2

\* a wrapper that counts every failed attempt, whatever the error
failureCountsAfterAnyError(fc, s, msg) == [fc EXCEPT ![s] = @ + 1]

\* executeWithRetry, catch: the failure counter and the Metrics Store after a
\* failed attempt with this message
failureCountsAfter(fc, s, msg) ==
  IF isConnectionError(msg) THEN [fc EXCEPT ![s] = @ + 1] ELSE fc

metricsAfterFailure(m, fc, s, msg) ==
  IF isConnectionError(msg) /\ shouldMarkUnhealthy(s, fc[s] + 1)
    THEN markServerUnhealthy(m, s)
    ELSE m

\* a wrapper that retries whatever the error is
willRetryAnyError(msg, attempt, maxRetries) == attempt # maxRetries

\* a wrapper that retries a connection-class failure without a budget
willRetryNoBudget(msg, attempt, maxRetries) == isConnectionError(msg)

\* executeWithRetry: is another attempt made after this failure
willRetry(msg, attempt, maxRetries) ==
  attempt # maxRetries /\ isConnectionError(msg)

\* executeWithRetry: seconds slept before the attempt that follows the
\* failed attempt with this index
backoffSeconds(attempt) == 2 ^ attempt

\* the catch block of a list handler's per-upstream task: does it set
\* isConnected = false for this error
listCatchDemotes(op, msg) ==
  IF op = "tools/list" THEN isConnectionError(msg) ELSE TRUE

\* the catch block of a targeted handler: does it set isConnected = false
targetCatchDemotes(op, msg) ==
  IF op = "tools/call"
    THEN ~isToolNotFound(msg) /\ isConnectionError(msg)
    ELSE TRUE

\* a retry that looks the name up again
retryTargetLookup(rq, map) == map[rq.name]

\* executeWithRetry: the client the next attempt is sent to is the client
\* the handler passed in
retryTarget(rq, map) == rq.target

\* a catch block that wraps whatever error it caught
raisedErrorWrapped(op, msg, n, s) == NotSupported(n, s)

\* the error the catch block of a targeted handler throws to the caller
raisedError(op, msg, n, s) ==
  IF op = "tools/call" /\ isToolNotFound(msg) THEN NotSupported(n, s) ELSE msg

\* display text of a descriptor as the upstream returns it, and as the list
\* handlers return it
OriginalText(n) == <<"does", n>>

\* a namespacing applied to a text that carries the prefix already
NamespacedTwice(s, text) == <<"[", s, "]">> \o (<<"[", s, "]">> \o text)

Namespaced(s, text) == <<"[", s, "]">> \o text

Descriptor(s, n) == [name |-> n, text |-> Namespaced(s, OriginalText(n))]

\* ------------------------------------------------------------ request slots
NoTask ==
  [st |-> "none", attempt |-> 0, backoff |-> 0, names |-> {}, err |-> NoError,
   cursor |-> NoCursor]
PendingTask ==
  [st |-> "pending", attempt |-> 0, backoff |-> 0, names |-> {}, err |-> NoError,
   cursor |-> NoCursor]

\* params.cursor of the list call a handler sends upstream
cursorSent(op, cursor) ==
  IF op \in {"prompts/list", "resources/list", "resources/templates/list"}
    THEN cursor
    ELSE NoCursor

\* nextCursor of the result a list handler returns
nextCursorOf(op, cursor) ==
  IF op \in {"prompts/list", "resources/templates/list"} THEN cursor ELSE NoCursor

IdleReq ==
  [pc |-> "idle", op |-> "none", name |-> "none", rebuilt |-> FALSE,
   task |-> [s \in Upstreams |-> NoTask],
   target |-> NoClient, attempt |-> 0, backoff |-> 0,
   outcome |-> "none", error |-> NoError, result |-> {},
   cursor |-> NoCursor, nextCursor |-> NoCursor]

Settled(rq) == \A s \in Upstreams : rq.task[s].st # "pending"

EmptyMap == [n \in AllNames |-> NoClient]

MapOf(kind) ==
  CASE kind = "tool" -> toolToClientMap
    [] kind = "prompt" -> promptToClientMap
    [] kind = "resource" -> resourceToClientMap
    [] OTHER -> EmptyMap

SetMap(kind, new) ==
  /\ toolToClientMap' = IF kind = "tool" THEN new ELSE toolToClientMap
  /\ promptToClientMap' = IF kind = "prompt" THEN new ELSE promptToClientMap
  /\ resourceToClientMap' = IF kind = "resource" THEN new ELSE resourceToClientMap

\* a merge in which one failed task empties the listing
AggregateAllOrNothing(rq) ==
  IF \E s \in Upstreams : rq.task[s].st = "failed"
    THEN {}
    ELSE UNION {{Descriptor(s, n) : n \in rq.task[s].names} :
                  s \in {u \in Upstreams : rq.task[u].st = "ok"}}

\* a merge that keeps one descriptor per name
AggregateOnePerName(rq) ==
  LET oks == {u \in Upstreams : rq.task[u].st = "ok"}
      listed == UNION {rq.task[u].names : u \in oks}
  IN {Descriptor(CHOOSE s \in oks : n \in rq.task[s].names, n) : n \in listed}

\* Promise.allSettled over the tasks, then the merge of the fulfilled ones
Aggregate(rq) ==
  UNION {{Descriptor(s, n) : n \in rq.task[s].names} :
           s \in {u \in Upstreams : rq.task[u].st = "ok"}}

\* a continuation that does not repeat the lookup after a rebuild
AfterFanoutNoLookup(rq, map) ==
  IF rq.op \in ListOps
    THEN [rq EXCEPT !.pc = "done", !.outcome = "ok", !.result = Aggregate(rq),
                    !.nextCursor = nextCursorOf(rq.op, rq.cursor)]
    ELSE [rq EXCEPT !.pc = "done", !.outcome = "error",
                    !.error = NotAvailable(rq.op, rq.name)]

\* the handler's continuation once every task of its fan-out has settled:
\* a list handler returns the merged listing, a targeted handler repeats the
\* lookup in the table map and dispatches or gives up
AfterFanout(rq, map) ==
  IF rq.op \in ListOps
    THEN [rq EXCEPT !.pc = "done", !.outcome = "ok", !.result = Aggregate(rq),
                    !.nextCursor = nextCursorOf(rq.op, rq.cursor)]
    ELSE IF map[rq.name] = NoClient
      THEN [rq EXCEPT !.pc = "done", !.outcome = "error",
                      !.error = NotAvailable(rq.op, rq.name)]
      ELSE [rq EXCEPT !.pc = "dispatch", !.target = map[rq.name], !.attempt = 0]

Init ==
  /\ isConnected = [s \in Upstreams |-> TRUE]
  /\ lastError = [s \in Upstreams |-> NoError]
  /\ failureCounts = [s \in Upstreams |-> 0]
  /\ metrics = [s \in Upstreams |-> initialMetrics]
  /\ healthChecks = [s \in Upstreams |-> [isHealthy |-> TRUE, errorMessage |-> NoError]]
  /\ toolToClientMap = EmptyMap
  /\ promptToClientMap = EmptyMap
  /\ resourceToClientMap = EmptyMap
  /\ req = [r \in Slots |-> IdleReq]
  /\ offers \in [Upstreams -> SUBSET Names]
  /\ nreq = 0
  /\ nev = 0
  /\ servers = << >>
  /\ currentIndex = 0
  /\ selected = NoClient
  /\ picks = << >>
  /\ late = {}
  /\ config = << >>
  /\ boot = NoBoot


\* ------------------------------------------------------ downstream requests
ResultOf(s, n) == [name |-> n, text |-> <<"result", "of", s>>]

FanoutTasks(healthy, cursor) ==
  [s \in Upstreams |-> IF s \in healthy THEN [PendingTask EXCEPT !.cursor = cursor] ELSE NoTask]

\* tools/list, prompts/list, resources/list, resources/templates/list: the
\* handler up to its await of the fan-out
StartList(r, op, cursor) ==
  /\ req[r].pc \in {"idle", "done"}
  /\ nreq < MaxRequests
  /\ nreq' = nreq + 1
  /\ LET healthy == getHealthyClients(isConnected)
         rq == [IdleReq EXCEPT !.op = op, !.pc = "fanout", !.cursor = cursor,
                               !.task = FanoutTasks(healthy, cursorSent(op, cursor))]
     IN /\ SetMap(KindOf(op), EmptyMap)
        /\ req' = [req EXCEPT ![r] = IF Settled(rq) THEN AfterFanout(rq, EmptyMap) ELSE rq]
  /\ UNCHANGED <<isConnected, lastError, failureCounts, metrics, healthChecks, offers, nev, auxVars>>

\* a rebuild that lists into the table as it stands
clearedTableKeeps(map) == map

\* toolToClientMap.clear() and its siblings at the start of a rebuild
clearedTable(map) == EmptyMap

\* a lookup that treats the entry of a disconnected upstream as a miss
tableLookupConnected(map, conn, n) ==
  IF map[n] # NoClient /\ conn[map[n]] THEN map[n] ELSE NoClient

\* toolToClientMap.get(name) and its siblings: the entry as it stands, the
\* connection flags are not read
tableLookup(map, conn, n) == map[n]

\* tools/call, prompts/get, resources/read: the lookup, and on a miss the
\* start of the rebuild fan-out
StartTargeted(r, op, n) ==
  /\ req[r].pc \in {"idle", "done"}
  /\ nreq < MaxRequests
  /\ nreq' = nreq + 1
  /\ LET hit == tableLookup(MapOf(KindOf(op)), isConnected, n)
         healthy == getHealthyClients(isConnected)
         rq == [IdleReq EXCEPT !.op = op, !.name = n, !.pc = "fanout",
                               !.rebuilt = TRUE, !.task = FanoutTasks(healthy, NoCursor)]
     IN IF hit # NoClient
          THEN /\ req' = [req EXCEPT ![r] = [IdleReq EXCEPT !.op = op, !.name = n,
                                                !.pc = "dispatch", !.target = hit]]
               /\ UNCHANGED mapVars
          ELSE /\ SetMap(KindOf(op), clearedTable(MapOf(KindOf(op))))
               /\ req' = [req EXCEPT ![r] =
                            IF Settled(rq)
                              THEN AfterFanout(rq, clearedTable(MapOf(KindOf(op))))
                              ELSE rq]
  /\ UNCHANGED <<isConnected, lastError, failureCounts, metrics, healthChecks, offers, nev, auxVars>>

\* an upstream answers the list call of a fan-out (of a list handler or of a
\* rebuild) with a listing of these names
FanoutReplyOk(r, s, names) ==
  /\ req[r].pc = "fanout"
  /\ req[r].task[s].st = "pending"
  /\ LET kind == KindOf(req[r].op)
         map1 == [n \in AllNames |-> IF n \in names THEN s ELSE MapOf(kind)[n]]
         rq1 == [req[r] EXCEPT !.task[s] = [NoTask EXCEPT !.st = "ok", !.names = names]]
     IN /\ SetMap(kind, map1)
        /\ req' = [req EXCEPT ![r] =
                     IF Settled(rq1)
                       THEN AfterFanout(rq1, IF kind = "template" THEN EmptyMap ELSE map1)
                       ELSE rq1]
  /\ failureCounts' = [failureCounts EXCEPT ![s] = 0]
  /\ UNCHANGED <<isConnected, lastError, metrics, healthChecks, offers, nreq, nev, auxVars>>

\* the list call of a fan-out fails with this message: executeWithRetry's
\* catch, then either the next attempt or the catch block of the task
FanoutFails(r, s, msg) ==
  /\ req[r].pc = "fanout"
  /\ req[r].task[s].st = "pending"
  /\ LET op == req[r].op
         fc1 == failureCountsAfter(failureCounts, s, msg)
         m1 == metricsAfterFailure(metrics, failureCounts, s, msg)
     IN IF willRetry(msg, req[r].task[s].attempt, MaxRetriesOf(op, "fanout"))
          THEN /\ req' = [req EXCEPT ![r].task[s].attempt = @ + 1,
                                        ![r].task[s].backoff =
                                          backoffSeconds(req[r].task[s].attempt)]
               /\ failureCounts' = fc1
               /\ metrics' = m1
               /\ UNCHANGED <<isConnected, lastError, healthChecks>>
          ELSE LET rq1 == [req[r] EXCEPT !.task[s] = [NoTask EXCEPT !.st = "failed", !.err = msg]]
                   demote == op \in ListOps /\ listCatchDemotes(op, msg)
                   out == triggerOutcome(FALSE, msg)
               IN /\ req' = [req EXCEPT ![r] =
                               IF Settled(rq1) THEN AfterFanout(rq1, MapOf(KindOf(op))) ELSE rq1]
                  /\ failureCounts' = fc1
                  /\ isConnected' = IF demote THEN [isConnected EXCEPT ![s] = FALSE] ELSE isConnected
                  /\ lastError' = IF demote THEN [lastError EXCEPT ![s] = msg] ELSE lastError
                  /\ healthChecks' = IF demote THEN [healthChecks EXCEPT ![s] = out] ELSE healthChecks
                  /\ metrics' = IF demote THEN metricsAfterCheck(m1, s, out) ELSE m1
  /\ UNCHANGED <<mapVars, offers, nreq, nev, selVars, bootVars>>

\* the list call fails with an error the upstream answered
FanoutReplyErr(r, s, msg) == FanoutFails(r, s, msg) /\ UNCHANGED late

\* the 10 s timer of the list call wins the race: the attempt fails with
\* 'Request timeout' and the request sent upstream stays outstanding
FanoutTimeout(r, s) == FanoutFails(r, s, RequestTimeout) /\ late' = late \cup {<<r, s>>}

\* the upstream the request was dispatched to answers with a result
DispatchReplyOk(r) ==
  /\ req[r].pc = "dispatch"
  /\ LET s == req[r].target
     IN /\ metrics' = IF req[r].op = "tools/call"
                        THEN recordRequest(metrics, s, TRUE) ELSE metrics
        /\ failureCounts' = [failureCounts EXCEPT ![s] = 0]
        /\ req' = [req EXCEPT ![r].pc = "done", ![r].outcome = "ok", ![r].attempt = 0,
                              ![r].backoff = 0,
                              ![r].result = {ResultOf(s, req[r].name)}]
  /\ UNCHANGED <<isConnected, lastError, healthChecks, mapVars, offers, nreq, nev, auxVars>>

\* the dispatched call fails with this message: the operation's own catch
\* (tools/call records the sample), executeWithRetry's catch, then either
\* the next attempt or the catch block of the handler
DispatchFails(r, msg) ==
  /\ req[r].pc = "dispatch"
  /\ LET op == req[r].op
         s == req[r].target
         n == req[r].name
         m0 == IF op = "tools/call" THEN recordRequest(metrics, s, FALSE) ELSE metrics
         fc1 == failureCountsAfter(failureCounts, s, msg)
         m1 == metricsAfterFailure(m0, failureCounts, s, msg)
     IN IF willRetry(msg, req[r].attempt, MaxRetriesOf(op, "dispatch"))
          THEN /\ req' = [req EXCEPT ![r].attempt = @ + 1,
                                        ![r].backoff = backoffSeconds(req[r].attempt),
                                        ![r].target = retryTarget(req[r], MapOf(KindOf(op)))]
               /\ failureCounts' = fc1
               /\ metrics' = m1
               /\ UNCHANGED <<isConnected, lastError, healthChecks, mapVars>>
          ELSE LET evict == op = "tools/call" /\ isToolNotFound(msg)
                   demote == targetCatchDemotes(op, msg)
                   out == triggerOutcome(FALSE, msg)
               IN /\ req' = [req EXCEPT ![r].pc = "done", ![r].outcome = "error",
                                        ![r].attempt = 0, ![r].backoff = 0,
                                        ![r].error = raisedError(op, msg, n, s)]
                  /\ failureCounts' = fc1
                  /\ toolToClientMap' = IF evict
                                          THEN [toolToClientMap EXCEPT ![n] = NoClient]
                                          ELSE toolToClientMap
                  /\ UNCHANGED <<promptToClientMap, resourceToClientMap>>
                  /\ isConnected' = IF demote THEN [isConnected EXCEPT ![s] = FALSE] ELSE isConnected
                  /\ lastError' = IF demote THEN [lastError EXCEPT ![s] = msg] ELSE lastError
                  /\ healthChecks' = IF demote THEN [healthChecks EXCEPT ![s] = out] ELSE healthChecks
                  /\ metrics' = IF demote THEN metricsAfterCheck(m1, s, out) ELSE m1
  /\ UNCHANGED <<offers, nreq, nev, selVars, bootVars>>

\* the dispatched call fails with an error the upstream answered
DispatchReplyErr(r, msg) == DispatchFails(r, msg) /\ UNCHANGED late

\* the timer of the dispatched call wins the race: the attempt fails with
\* 'Request timeout' and the request sent upstream stays outstanding
DispatchTimeout(r) ==
  DispatchFails(r, RequestTimeout) /\ late' = late \cup {<<r, req[r].target>>}

\* a listing that arrives late is entered into the routing table
lateTablePopulates(map, s, names) == [n \in AllNames |-> IF n \in names THEN s ELSE map[n]]

\* the routing table after the response of an outstanding request arrived:
\* Promise.race has settled, nothing awaits the request any more
lateTable(map, s, names) == map

\* the response to a request that lost the race arrives
LateCompletion(r, s) ==
  /\ <<r, s>> \in late
  /\ late' = late \ {<<r, s>>}
  /\ toolToClientMap' = lateTable(toolToClientMap, s, offers[s])
  /\ UNCHANGED <<isConnected, lastError, failureCounts, metrics, healthChecks,
                 promptToClientMap, resourceToClientMap, req, offers, nreq, nev,
                 selVars, bootVars>>

\* ------------------------------------------------------ timers and callbacks
Event ==
  /\ nev < MaxEvents
  /\ nev' = nev + 1

\* HealthMonitor.performHealthChecks: checkServerHealth for every client
HealthCheckCycle ==
  /\ Event
  /\ healthChecks' = [s \in Upstreams |-> checkOutcome(s, isConnected[s], lastError[s])]
  /\ metrics' = [s \in Upstreams |->
                   metricsAfterCheck(metrics, s,
                                     checkOutcome(s, isConnected[s], lastError[s]))[s]]
  /\ UNCHANGED <<isConnected, lastError, failureCounts, mapVars, req, offers, nreq, auxVars>>

\* HealthMonitor.triggerHealthCheck called from the dashboard
ManualHealthCheck(s) ==
  /\ Event
  /\ healthChecks' = [healthChecks EXCEPT ![s] = triggerOutcome(isConnected[s], lastError[s])]
  /\ metrics' = metricsAfterCheck(metrics, s, triggerOutcome(isConnected[s], lastError[s]))
  /\ UNCHANGED <<isConnected, lastError, failureCounts, mapVars, req, offers, nreq, auxVars>>

\* an onerror callback that records the error and leaves the flag alone
markDisconnectedNot(conn, s) == conn

\* connectedClient.isConnected = false
markDisconnected(conn, s) == [conn EXCEPT ![s] = FALSE]

\* transport.onerror with this error message
TransportError(s, msg) ==
  /\ Event
  /\ isConnected' = markDisconnected(isConnected, s)
  /\ lastError' = [lastError EXCEPT ![s] = msg]
  /\ UNCHANGED <<failureCounts, metrics, healthChecks, mapVars, req, offers, nreq, auxVars>>

\* transport.onclose
TransportClose(s) ==
  /\ Event
  /\ isConnected' = [isConnected EXCEPT ![s] = FALSE]
  /\ lastError' = [lastError EXCEPT ![s] = ConnectionClosed]
  /\ UNCHANGED <<failureCounts, metrics, healthChecks, mapVars, req, offers, nreq, auxVars>>

\* the 30 s SSE probe finding readyState = CLOSED
SSEProbe(s) ==
  /\ Event
  /\ s \in SseUpstreams
  /\ isConnected[s]
  /\ isConnected' = [isConnected EXCEPT ![s] = FALSE]
  /\ lastError' = [lastError EXCEPT ![s] = SseClosed]
  /\ UNCHANGED <<failureCounts, metrics, healthChecks, mapVars, req, offers, nreq, auxVars>>

\* a request in flight took a sample for s: its lastUsed is younger than
\* the request, hence than 24 h
RecentlyUsed(s) ==
  \E r \in Slots :
    /\ req[r].op = "tools/call"
    /\ req[r].target = s
    /\ req[r].pc = "done" \/ (req[r].pc = "dispatch" /\ req[r].attempt > 0)

\* MetricsManager.cleanupOldData: the records in old are those whose
\* lastUsed is more than 24 h ago at this tick
CleanupOldData(old) ==
  /\ Event
  /\ old # {}
  /\ \A s \in old : metrics[s].present /\ ~RecentlyUsed(s)
  /\ metrics' = [s \in Upstreams |-> IF s \in old THEN NoMetrics ELSE metrics[s]]
  /\ UNCHANGED <<isConnected, lastError, failureCounts, healthChecks, mapVars, req, offers, nreq, auxVars>>

\* the downstream client sends one request at a time
Next ==
  \/ \E r \in SeqSlots, op \in ListOps : StartList(r, op, NoCursor)
  \/ \E r \in SeqSlots, op \in TargetOps, n \in Names : StartTargeted(r, op, n)
  \/ \E r \in SeqSlots, s \in Upstreams : FanoutReplyOk(r, s, offers[s])
  \/ \E r \in SeqSlots, s \in Upstreams, msg \in UpstreamErrors("list", "none") :
       FanoutReplyErr(r, s, msg)
  \/ \E r \in SeqSlots : DispatchReplyOk(r)
  \/ \E r \in SeqSlots : \E msg \in UpstreamErrors(req[r].op, req[r].name) :
       DispatchReplyErr(r, msg)
  \/ HealthCheckCycle
  \/ \E s \in Upstreams : ManualHealthCheck(s)
  \/ \E s \in Upstreams : TransportError(s, ConnRefused)
  \/ \E s \in Upstreams : TransportClose(s)
  \/ \E s \in Upstreams : SSEProbe(s)
  \/ \E old \in SUBSET Upstreams : CleanupOldData(old)

Spec == Init /\ [][Next]_vars

\* the downstream client has up to two tool requests in flight
ConcOps == {"tools/list", "tools/call"}

ConcNext ==
  \/ \E r \in Slots, op \in ListOps \cap ConcOps : StartList(r, op, NoCursor)
  \/ \E r \in Slots, op \in TargetOps \cap ConcOps, n \in Names : StartTargeted(r, op, n)
  \/ \E r \in Slots, s \in Upstreams : FanoutReplyOk(r, s, offers[s])
  \/ \E r \in Slots, s \in Upstreams, msg \in UpstreamErrors("list", "none") :
       FanoutReplyErr(r, s, msg)
  \/ \E r \in Slots : DispatchReplyOk(r)
  \/ \E r \in Slots : \E msg \in UpstreamErrors(req[r].op, req[r].name) :
       DispatchReplyErr(r, msg)

ConcSpec == Init /\ [][ConcNext]_vars


\* tool requests, one at a time, against upstreams that answer in time or
\* after the timer of the call has fired
LateNext ==
  \/ \E r \in SeqSlots : StartList(r, "tools/list", NoCursor)
  \/ \E r \in SeqSlots, n \in Names : StartTargeted(r, "tools/call", n)
  \/ \E r \in SeqSlots, s \in Upstreams : FanoutReplyOk(r, s, offers[s])
  \/ \E r \in SeqSlots, s \in Upstreams : FanoutTimeout(r, s)
  \/ \E r \in SeqSlots : DispatchReplyOk(r)
  \/ \E r \in SeqSlots : DispatchTimeout(r)
  \/ \E r \in SeqSlots, s \in Upstreams : LateCompletion(r, s)

LateSpec == Init /\ [][LateNext]_vars


\* tool and resource requests, one at a time, for names of which only some
\* are listed, against upstreams that answer, fail or lose their transport
RebuildOps == {"tools/call", "resources/read"}

RebuildInit ==
  /\ isConnected = [s \in Upstreams |-> TRUE]
  /\ lastError = [s \in Upstreams |-> NoError]
  /\ failureCounts = [s \in Upstreams |-> 0]
  /\ metrics = [s \in Upstreams |-> initialMetrics]
  /\ healthChecks = [s \in Upstreams |-> [isHealthy |-> TRUE, errorMessage |-> NoError]]
  /\ toolToClientMap = EmptyMap
  /\ promptToClientMap = EmptyMap
  /\ resourceToClientMap = EmptyMap
  /\ req = [r \in Slots |-> IdleReq]
  /\ offers \in [Upstreams -> SUBSET AllNames]
  /\ nreq = 0
  /\ nev = 0
  /\ servers = << >>
  /\ currentIndex = 0
  /\ selected = NoClient
  /\ picks = << >>
  /\ late = {}
  /\ config = << >>
  /\ boot = NoBoot

RebuildNext ==
  \/ \E r \in SeqSlots : StartList(r, "tools/list", NoCursor)
  \/ \E r \in SeqSlots, op \in RebuildOps, n \in AllNames : StartTargeted(r, op, n)
  \/ \E r \in SeqSlots, s \in Upstreams : FanoutReplyOk(r, s, offers[s])
  \/ \E r \in SeqSlots, s \in Upstreams : FanoutReplyErr(r, s, RequestTimeout)
  \/ \E r \in SeqSlots : DispatchReplyOk(r)
  \/ \E r \in SeqSlots : DispatchReplyErr(r, ConnRefused)
  \/ \E s \in Upstreams : TransportClose(s)

RebuildSpec == RebuildInit /\ [][RebuildNext]_vars

\* the downstream client pages through the listings: list requests only,
\* with and without a cursor, one at a time
ListNext ==
  \/ \E r \in SeqSlots, op \in ListOps, cursor \in Cursors : StartList(r, op, cursor)
  \/ \E r \in SeqSlots, s \in Upstreams : FanoutReplyOk(r, s, offers[s])
  \/ \E r \in SeqSlots, s \in Upstreams, msg \in UpstreamErrors("list", "none") :
       FanoutReplyErr(r, s, msg)
  \/ \E s \in Upstreams : TransportClose(s)

ListSpec == Init /\ [][ListNext]_vars

\* ------------------------------------------------------------- selector
\* The records handed to the selector: responseTime in ms, successRate,
\* loadFactor and capabilityScore in tenths.
SelServers == <<"A", "B", "C">>

ServerProfiles ==
  {[responseTime |-> 100, successRate |-> 5, loadFactor |-> 5],
   [responseTime |-> 4000, successRate |-> 10, loadFactor |-> 0],
   [responseTime |-> 100, successRate |-> 10, loadFactor |-> 8]}

ServerRecords ==
  {[serverName |-> SelServers[i], isHealthy |-> h, responseTime |-> p.responseTime,
    successRate |-> p.successRate, loadFactor |-> p.loadFactor, capabilityScore |-> 10] :
     i \in DOMAIN SelServers, h \in BOOLEAN, p \in ServerProfiles}

NameIndex(n) == CHOOSE i \in DOMAIN SelServers : SelServers[i] = n

\* the metrics of the connected clients, in the order of the client list
ServerLists ==
  {l \in UNION {[1..k -> ServerRecords] : k \in 0..Len(SelServers)} :
     \A i, j \in DOMAIN l : i < j => NameIndex(l[i].serverName) < NameIndex(l[j].serverName)}

\* request.params as the adaptive strategy reads it
SelRequests ==
  {[hasTimeout |-> FALSE, timeout |-> 0, priority |-> "none"],
   [hasTimeout |-> FALSE, timeout |-> 0, priority |-> "high"],
   [hasTimeout |-> TRUE, timeout |-> 0, priority |-> "none"],
   [hasTimeout |-> TRUE, timeout |-> 500, priority |-> "high"],
   [hasTimeout |-> TRUE, timeout |-> 1000, priority |-> "high"]}

StrategyNames ==
  {"quality", "performance", "load-balanced", "round-robin", "adaptive", "fastest"}

\* availableServers.filter(server => server.isHealthy), without the filter
healthyOnlyAll(list) == list

\* availableServers.filter(server => server.isHealthy)
healthyOnly(list) == SelectSeq(list, LAMBDA m : m.isHealthy)

\* calculateOverallScore, times 50000
calculateOverallScore(m) ==
  LET performance == IF 5000 - m.responseTime > 0 THEN 5000 - m.responseTime ELSE 0
  IN 3 * performance + 1500 * m.successRate + 1000 * m.capabilityScore
       + 1000 * (10 - m.loadFactor)

\* the callbacks handed to reduce, named after their accumulator
reducer(by, acc, current) ==
  CASE by = "fastest" -> IF current.responseTime < acc.responseTime THEN current ELSE acc
    [] by = "least" -> IF current.loadFactor < acc.loadFactor THEN current ELSE acc
    [] by = "most" -> IF current.successRate > acc.successRate THEN current ELSE acc
    [] by = "best" -> IF calculateOverallScore(current) > calculateOverallScore(acc)
                        THEN current ELSE acc

\* Array.prototype.reduce without an initial value
RECURSIVE ReduceFrom(_, _, _, _)
ReduceFrom(by, acc, list, i) ==
  IF i > Len(list) THEN acc ELSE ReduceFrom(by, reducer(by, acc, list[i]), list, i + 1)

Reduce(by, list) == ReduceFrom(by, list[1], list, 2)

\* Array.prototype.sort (stable) with the comparator scoreB - scoreA
RECURSIVE InsertByScore(_, _)
InsertByScore(sorted, m) ==
  IF sorted = << >>
    THEN <<m>>
    ELSE IF calculateOverallScore(Head(sorted)) >= calculateOverallScore(m)
      THEN <<Head(sorted)>> \o InsertByScore(Tail(sorted), m)
      ELSE <<m>> \o sorted

RECURSIVE SortByScore(_)
SortByScore(list) ==
  IF list = << >> THEN << >>
  ELSE InsertByScore(SortByScore(SubSeq(list, 1, Len(list) - 1)), list[Len(list)])

QualityBasedStrategy(list) ==
  LET sortedServers == SortByScore(healthyOnly(list))
  IN IF sortedServers = << >> THEN NoClient ELSE sortedServers[1].serverName

selectByPerformance(healthyServers) ==
  Reduce("fastest", healthyServers).serverName

PerformanceBasedStrategy(list) ==
  IF healthyOnly(list) = << >> THEN NoClient ELSE selectByPerformance(healthyOnly(list))

LoadBalancedStrategy(list) ==
  IF healthyOnly(list) = << >>
    THEN NoClient
    ELSE Reduce("least", healthyOnly(list)).serverName

\* a round-robin that does not advance its index
RoundRobinStrategyStuck(list, index) ==
  LET healthyServers == healthyOnly(list)
  IN IF healthyServers = << >>
       THEN [name |-> NoClient, index |-> index]
       ELSE [name |-> healthyServers[(index % Len(healthyServers)) + 1].serverName,
             index |-> index]

\* RoundRobinStrategy.selectServer: the name returned and the index stored
RoundRobinStrategy(list, index) ==
  LET healthyServers == healthyOnly(list)
  IN IF healthyServers = << >>
       THEN [name |-> NoClient, index |-> index]
       ELSE [name |-> healthyServers[(index % Len(healthyServers)) + 1].serverName,
             index |-> (index + 1) % Len(healthyServers)]

detectRequestType(request) ==
  IF request.hasTimeout /\ request.timeout # 0 /\ request.timeout < 1000
    THEN "performance-critical"
    ELSE IF request.priority = "high" THEN "reliability-critical" ELSE "balanced"

selectByReliability(healthyServers) ==
  Reduce("most", healthyServers).serverName

selectByOverallScore(healthyServers) ==
  Reduce("best", healthyServers).serverName

AdaptiveStrategy(request, list) ==
  LET healthyServers == healthyOnly(list)
  IN IF healthyServers = << >>
       THEN NoClient
       ELSE CASE detectRequestType(request) = "performance-critical" ->
                   selectByPerformance(healthyServers)
              [] detectRequestType(request) = "reliability-critical" ->
                   selectByReliability(healthyServers)
              [] OTHER -> selectByOverallScore(healthyServers)

\* SmartSelector.selectServer: the name returned and the round-robin index
\* stored after the call; a name that is no key of the strategy map selects
\* the default strategy
selectServer(strategyName, request, list, index) ==
  CASE strategyName = "quality" ->
         [name |-> QualityBasedStrategy(list), index |-> index]
    [] strategyName = "performance" ->
         [name |-> PerformanceBasedStrategy(list), index |-> index]
    [] strategyName = "load-balanced" ->
         [name |-> LoadBalancedStrategy(list), index |-> index]
    [] strategyName = "round-robin" -> RoundRobinStrategy(list, index)
    [] strategyName = "adaptive" ->
         [name |-> AdaptiveStrategy(request, list), index |-> index]
    [] OTHER -> [name |-> AdaptiveStrategy(request, list), index |-> index]

\* the last PickWindow names of a sequence of selections
LastPicks(s) == IF Len(s) > PickWindow THEN SubSeq(s, Len(s) - PickWindow + 1, Len(s)) ELSE s

\* one call of SmartSelector.selectServer
Select(strategyName, request) ==
  /\ servers # << >>
  /\ LET result == selectServer(strategyName, request, servers, currentIndex)
     IN /\ selected' = result.name
        /\ currentIndex' = result.index
        /\ picks' = IF strategyName = "round-robin" /\ result.name # NoClient
                      THEN LastPicks(Append(picks, result.name))
                      ELSE picks
  /\ UNCHANGED <<servers, proxyVars, bootVars>>

\* the Health Monitor marks the record of the i-th server between two
\* selections
SetHealthy(i, healthy) ==
  /\ i \in DOMAIN servers
  /\ servers[i].isHealthy # healthy
  /\ servers' = [servers EXCEPT ![i].isHealthy = healthy]
  /\ picks' = << >>
  /\ UNCHANGED <<currentIndex, selected, proxyVars, bootVars>>

SelInit ==
  /\ isConnected = [s \in Upstreams |-> TRUE]
  /\ lastError = [s \in Upstreams |-> NoError]
  /\ failureCounts = [s \in Upstreams |-> 0]
  /\ metrics = [s \in Upstreams |-> initialMetrics]
  /\ healthChecks = [s \in Upstreams |-> [isHealthy |-> TRUE, errorMessage |-> NoError]]
  /\ toolToClientMap = EmptyMap
  /\ promptToClientMap = EmptyMap
  /\ resourceToClientMap = EmptyMap
  /\ req = [r \in Slots |-> IdleReq]
  /\ offers = [s \in Upstreams |-> {}]
  /\ nreq = 0
  /\ nev = 0
  /\ servers \in ServerLists
  /\ currentIndex = 0
  /\ selected = NoClient
  /\ picks = << >>
  /\ late = {}
  /\ config = << >>
  /\ boot = NoBoot

SelNext ==
  \/ \E strategyName \in StrategyNames, request \in SelRequests :
       Select(strategyName, request)
  \/ \E i \in DOMAIN SelServers, healthy \in BOOLEAN : SetHealthy(i, healthy)

SelSpec == SelInit /\ [][SelNext]_vars

\* -------------------------------------------------------------- client.ts
\* The variables an allow-list can name, and process.env: HOME is set,
\* API_KEY is not.
EnvNames == {"HOME", "API_KEY"}
Unset == "undefined"
ProcessEnv == [v \in EnvNames |-> IF v = "HOME" THEN "/root" ELSE Unset]

EnvLists == UNION {[1..k -> EnvNames] : k \in 0..MaxEnvLen}

\* server.transport: an sse url that new URL() accepts or rejects, a stdio
\* command without env, and a stdio command with an env allow-list
Transports ==
  {[type |-> "sse", urlValid |-> b, hasEnv |-> FALSE, env |-> << >>] : b \in BOOLEAN}
    \cup {[type |-> "stdio", urlValid |-> TRUE, hasEnv |-> FALSE, env |-> << >>]}
    \cup {[type |-> "stdio", urlValid |-> TRUE, hasEnv |-> TRUE, env |-> l] : l \in EnvLists}

ServerNames == <<"s1", "s2", "s3">>

Configs ==
  UNION {{[k \in 1..n |-> [name |-> ServerNames[k], transport |-> f[k]]] :
            f \in [1..n -> Transports]} : n \in 0..MaxServers}

\* process.env[v] || ''
envValue(v) == IF ProcessEnv[v] \in {Unset, ""} THEN "" ELSE ProcessEnv[v]

\* the callback of the env reduce, (o, v) => ({[v]: process.env[v] || ''}):
\* an object as the set of its name-value pairs
envCallback(o, v) == {<<v, envValue(v)>>}

RECURSIVE envReduce(_, _, _)
envReduce(o, list, i) ==
  IF i > Len(list) THEN o ELSE envReduce(envCallback(o, list[i]), list, i + 1)

\* createClient: whether a transport was created, and the env option of a
\* stdio transport
createClient(server) ==
  [ok |-> ~(server.transport.type = "sse" /\ ~server.transport.urlValid),
   hasEnv |-> server.transport.type = "stdio" /\ server.transport.hasEnv,
   env |-> IF server.transport.type = "stdio" /\ server.transport.hasEnv
             THEN envReduce({}, server.transport.env, 1)
             ELSE {}]

retries == 3

\* a connect loop that never gives up
retryConnectAlways(count) == TRUE

\* retry = (count < retries)
retryConnect(count) == count < retries

\* the for loop moves to the next server, or createClients returns
NextServer(b) ==
  IF b.i >= Len(config)
    THEN [b EXCEPT !.pc = "returned"]
    ELSE [b EXCEPT !.i = @ + 1, !.count = 0, !.pc = "loop"]

\* the head of the while loop: createClient, then the call of connect, or
\* the break when no transport could be created
StartAttempt ==
  /\ boot.pc = "loop"
  /\ LET c == createClient(config[boot.i])
     IN boot' = IF ~c.ok
                  THEN NextServer(boot)
                  ELSE [boot EXCEPT !.pc = "connecting", !.attempts[boot.i] = @ + 1,
                                    !.env = c.env, !.hasEnv = c.hasEnv]
  /\ UNCHANGED <<config, proxyVars, selVars>>

\* client.connect resolves: the client is pushed and the loop left
ConnectOk ==
  /\ boot.pc = "connecting"
  /\ boot' = NextServer([boot EXCEPT
                           !.clients = Append(@, [name |-> config[boot.i].name,
                                                  isConnected |-> TRUE]),
                           !.connected[boot.i] = TRUE])
  /\ UNCHANGED <<config, proxyVars, selVars>>

\* client.connect rejects: the catch block, with its close and sleep
ConnectFail ==
  /\ boot.pc = "connecting"
  /\ boot' = IF retryConnect(boot.count + 1)
               THEN [boot EXCEPT !.count = @ + 1, !.pc = "loop"]
               ELSE NextServer([boot EXCEPT !.count = @ + 1])
  /\ UNCHANGED <<config, proxyVars, selVars>>

BootInit ==
  /\ isConnected = [s \in Upstreams |-> TRUE]
  /\ lastError = [s \in Upstreams |-> NoError]
  /\ failureCounts = [s \in Upstreams |-> 0]
  /\ metrics = [s \in Upstreams |-> initialMetrics]
  /\ healthChecks = [s \in Upstreams |-> [isHealthy |-> TRUE, errorMessage |-> NoError]]
  /\ toolToClientMap = EmptyMap
  /\ promptToClientMap = EmptyMap
  /\ resourceToClientMap = EmptyMap
  /\ req = [r \in Slots |-> IdleReq]
  /\ offers = [s \in Upstreams |-> {}]
  /\ nreq = 0
  /\ nev = 0
  /\ servers = << >>
  /\ currentIndex = 0
  /\ selected = NoClient
  /\ picks = << >>
  /\ late = {}
  /\ config \in Configs
  /\ boot = [pc |-> IF config = << >> THEN "returned" ELSE "loop",
             i |-> 1, count |-> 0, clients |-> << >>,
             attempts |-> [k \in DOMAIN config |-> 0],
             connected |-> [k \in DOMAIN config |-> FALSE],
             env |-> {}, hasEnv |-> FALSE]

BootNext == StartAttempt \/ ConnectOk \/ ConnectFail

\* connect settles: the SDK rejects an initialize that is not answered
BootSpec == BootInit /\ [][BootNext]_vars /\ WF_vars(BootNext)

\* ==================================================================== claims

\* the routing table map holds exactly the names that the upstreams which
\* succeeded in the fan-out of rq returned, each mapped to one of them
TableExact(rq, map) ==
  \A n \in Names :
    /\ map[n] # NoClient =>
         rq.task[map[n]].st = "ok" /\ n \in rq.task[map[n]].names
    /\ (\E s \in Upstreams : rq.task[s].st = "ok" /\ n \in rq.task[s].names) =>
         map[n] # NoClient

TableExactAt(r) == TableExact(req[r], MapOf(KindOf(req[r].op)))

\* C1: when a tools/list, prompts/list or resources/list request completes,
\* whatever other requests were in flight with it, the routing table of its
\* kind maps exactly the names returned by the upstreams that succeeded on
\* that call, each to an upstream that returned it.
C1_TableExactAfterList ==
  [][\A r \in Slots :
       (/\ req'[r] # req[r]
        /\ req'[r].pc = "done"
        /\ req'[r].op \in ListOps \ {"resources/templates/list"})
       => TableExactAt(r)']_vars

\* C2: a tools/call, prompts/get or resources/read whose upstream fails with
\* a business-class error leaves that upstream's failure counter, its
\* isConnected, its HealthCheck record and its isHealthy bit as they were.
C2_BusinessErrorNoDemotion ==
  [][\A r \in Slots : \A msg \in {InvalidParams, ToolNotFound(req[r].name)} :
       DispatchReplyErr(r, msg) =>
         LET s == req[r].target
         IN /\ failureCounts'[s] = failureCounts[s]
            /\ isConnected'[s] = isConnected[s]
            /\ healthChecks'[s] = healthChecks[s]
            /\ metrics[s].present => metrics'[s].isHealthy = metrics[s].isHealthy]_vars

C4_HealthyUntilFifthCall ==
  [][\A r \in Slots :
       (/\ DispatchReplyErr(r, ConnRefused)
        /\ req[r].op = "tools/call"
        /\ req'[r].pc = "done"
        /\ metrics[req[r].target].present
        /\ metrics[req[r].target].isHealthy
        /\ metrics'[req[r].target].errorCount <= 2 * 4)
       => metrics'[req[r].target].isHealthy]_vars

\* C4, amended: a tools/call whose attempts all fail with 'ECONNREFUSED'
\* makes exactly one retry, and when it ends, the first such call included,
\* the upstream is disconnected and its isHealthy bit and HealthCheck record
\* are false.
C4_UnhealthyAfterFirstCall ==
  [][\A r \in Slots :
       DispatchReplyErr(r, ConnRefused) /\ req[r].op = "tools/call" =>
         LET s == req[r].target
         IN IF req[r].attempt = 0
              THEN req'[r].pc = "dispatch" /\ req'[r].attempt = 1 /\ req'[r].target = s
              ELSE /\ req[r].attempt = 1
                   /\ req'[r].pc = "done"
                   /\ req'[r].outcome = "error"
                   /\ ~isConnected'[s]
                   /\ ~healthChecks'[s].isHealthy
                   /\ metrics'[s].present
                   /\ ~metrics'[s].isHealthy]_vars

C4_Witness ==
  \E r \in Slots :
    /\ req[r].pc = "done"
    /\ req[r].op = "tools/call"
    /\ req[r].error = ConnRefused
    /\ metrics[req[r].target].errorCount = 2
    /\ failureCounts[req[r].target] = 2
    /\ ~metrics[req[r].target].isHealthy

\* C5: a tools/call, prompts/get or resources/read whose name misses the
\* routing table sends the list call to every connected upstream; when the
\* rebuild ends and some upstream answered it with the name, the table maps
\* the name to such an upstream and the call is dispatched to it; and the
\* result that upstream gives is what the caller gets.
C5_LookupMissRebuild ==
  [][\A r \in Slots :
       /\ \A op \in TargetOps, n \in Names :
            StartTargeted(r, op, n) /\ MapOf(KindOf(op))[n] = NoClient =>
              /\ req'[r].rebuilt
              /\ req'[r].pc = "fanout" =>
                   \A s \in Upstreams : isConnected[s] <=> req'[r].task[s].st = "pending"
              /\ req'[r].pc # "fanout" => \A s \in Upstreams : ~isConnected[s]
       /\ (req[r].pc = "fanout" /\ req[r].op \in TargetOps /\ req'[r].pc # "fanout") =>
            LET answered == {s \in Upstreams : /\ req'[r].task[s].st = "ok"
                                                /\ req[r].name \in req'[r].task[s].names}
            IN answered # {} =>
                 /\ req'[r].pc = "dispatch"
                 /\ req'[r].target \in answered
                 /\ MapOf(KindOf(req[r].op))'[req[r].name] = req'[r].target
       /\ DispatchReplyOk(r) =>
            /\ req'[r].outcome = "ok"
            /\ req'[r].result = {ResultOf(req[r].target, req[r].name)}]_vars

C5_Witness ==
  \E r \in Slots :
    /\ req[r].pc = "done"
    /\ req[r].op = "prompts/get"
    /\ req[r].rebuilt
    /\ req[r].outcome = "ok"
    /\ req[r].target = "A"
    /\ req[r].task["A"].st = "ok"
    /\ req[r].name \in req[r].task["A"].names
    /\ promptToClientMap[req[r].name] = "A"
    /\ req[r].result = {ResultOf("A", req[r].name)}

\* C6: a list request that has completed returned a listing, not an error,
\* and the listing holds the descriptor of every name that every upstream
\* which succeeded returned, whatever the other upstreams did.
C6_ListNeverFails ==
  \A r \in Slots :
    req[r].pc = "done" /\ req[r].op \in ListOps =>
      /\ req[r].outcome = "ok"
      /\ \A s \in Upstreams :
           req[r].task[s].st = "ok" =>
             \A n \in req[r].task[s].names : Descriptor(s, n) \in req[r].result

C6_Witness ==
  \E r \in Slots :
    /\ req[r].pc = "done"
    /\ req[r].op = "resources/templates/list"
    /\ req[r].task["A"].st = "failed"
    /\ req[r].task["Example Server 3"].st = "ok"
    /\ Descriptor("Example Server 3", "t1") \in req[r].result

C8_ListBusinessErrorNoDemotion ==
  [][\A r \in Slots, s \in Upstreams :
       FanoutReplyErr(r, s, InvalidParams) /\ req[r].op \in ListOps =>
         /\ isConnected'[s] = isConnected[s]
         /\ lastError'[s] = lastError[s]
         /\ healthChecks'[s] = healthChecks[s]]_vars

\* C9: a request that an upstream answers successfully sets that
\* upstream's isConnected to true.
C9_SuccessReconnects ==
  [][\A r \in Slots :
       /\ DispatchReplyOk(r) => isConnected'[req[r].target]
       /\ \A s \in Upstreams : FanoutReplyOk(r, s, offers[s]) => isConnected'[s]]_vars

\* C10: a tools/call whose upstream fails with a connection-class error
\* does not end in that error while another connected upstream lists the
\* same tool name.
C10_Failover ==
  [][\A r \in Slots :
       (/\ DispatchReplyErr(r, ConnRefused)
        /\ req[r].op = "tools/call"
        /\ \E b \in Upstreams \ {req[r].target} :
             isConnected[b] /\ req[r].name \in offers[b])
       => req'[r].outcome # "error"]_vars

\* C11: a call in flight inside the retry wrapper is never past attempt
\* maxRetries+1 - the second attempt for a dispatched tools/call, the third
\* for a list call, a dispatched prompts/get or resources/read; a success
\* ends the wrapper (no attempt follows it) and a failure of the last
\* attempt ends it with that error.
C11_RetryBudget ==
  [][\A r \in Slots :
       /\ req'[r].pc = "dispatch" =>
            req'[r].attempt + 1 <= (IF req'[r].op = "tools/call" THEN 2 ELSE 3)
       /\ \A s \in Upstreams :
            req'[r].task[s].st = "pending" => req'[r].task[s].attempt + 1 <= 3
       /\ DispatchReplyOk(r) => req'[r].pc = "done" /\ req'[r].outcome = "ok"
       /\ \A s \in Upstreams :
            FanoutReplyOk(r, s, offers[s]) => req'[r].task[s].st = "ok"
       /\ \A msg \in UpstreamErrors(req[r].op, req[r].name) :
            (/\ DispatchReplyErr(r, msg)
             /\ req[r].attempt + 1 = (IF req[r].op = "tools/call" THEN 2 ELSE 3))
            => req'[r].pc = "done" /\ req'[r].outcome = "error"
       /\ \A s \in Upstreams : \A msg \in UpstreamErrors("list", "none") :
            (FanoutReplyErr(r, s, msg) /\ req[r].task[s].attempt + 1 = 3)
            => req'[r].task[s].st = "failed" /\ req'[r].task[s].err = msg]_vars

C11_Witness ==
  \E r \in Slots :
    /\ req[r].pc = "dispatch"
    /\ req[r].op = "resources/read"
    /\ req[r].attempt = 2

\* C12: an attempt that fails with an error that is not connection-class
\* ends the wrapper with that error, and the attempt index grows (after a
\* sleep of 2^attempt seconds) only on a connection-class failure.
C12_RetryOnlyConnectionErrors ==
  [][\A r \in Slots :
       /\ \A msg \in UpstreamErrors(req[r].op, req[r].name) :
            DispatchReplyErr(r, msg) =>
              IF isConnectionError(msg)
                THEN req'[r].pc = "dispatch" =>
                       /\ req'[r].attempt = req[r].attempt + 1
                       /\ req'[r].backoff = 2 ^ req[r].attempt
                ELSE /\ req'[r].pc = "done"
                     /\ req'[r].outcome = "error"
                     /\ req[r].op # "tools/call" => req'[r].error = msg
       /\ \A s \in Upstreams : \A msg \in UpstreamErrors("list", "none") :
            FanoutReplyErr(r, s, msg) =>
              IF isConnectionError(msg)
                THEN req'[r].task[s].st = "pending" =>
                       /\ req'[r].task[s].attempt = req[r].task[s].attempt + 1
                       /\ req'[r].task[s].backoff = 2 ^ req[r].task[s].attempt
                ELSE req'[r].task[s].st = "failed" /\ req'[r].task[s].err = msg]_vars

C12_Witness ==
  \E r \in Slots :
    /\ req[r].pc = "fanout"
    /\ req[r].task["A"].st = "failed"
    /\ req[r].task["A"].err = InvalidParams
    /\ req[r].task["Example Server 3"].st = "pending"
    /\ req[r].task["Example Server 3"].attempt = 2
    /\ req[r].task["Example Server 3"].backoff = 2

\* C13: every call that succeeds through the retry wrapper - the list call
\* of a fan-out, a dispatched tools/call, prompts/get or resources/read -
\* adds one successful sample to the upstream's MetricsRecord (totalRequests
\* +1, errorCount unchanged) and sets its failure counter to 0.
C13_SuccessRecordsSample ==
  [][\A r \in Slots :
       /\ DispatchReplyOk(r) =>
            LET s == req[r].target
            IN /\ failureCounts'[s] = 0
               /\ metrics[s].present =>
                    /\ metrics'[s].totalRequests = metrics[s].totalRequests + 1
                    /\ metrics'[s].errorCount = metrics[s].errorCount
       /\ \A s \in Upstreams :
            FanoutReplyOk(r, s, offers[s]) =>
              /\ failureCounts'[s] = 0
              /\ metrics[s].present =>
                   /\ metrics'[s].totalRequests = metrics[s].totalRequests + 1
                   /\ metrics'[s].errorCount = metrics[s].errorCount]_vars

\* the counters and the success rate of the record of u
Counters(m, u) == <<m[u].present, m[u].totalRequests, m[u].errorCount, m[u].successRate>>

\* C14: no health-check outcome changes errorCount, totalRequests or
\* successRate of any record: the periodic check and the manual trigger
\* leave them as they were, and so would markServerHealthy and
\* markServerUnhealthy called for any upstream on the Metrics Store the
\* check started from.
C14_HealthCheckFrame ==
  [][(HealthCheckCycle \/ \E s \in Upstreams : ManualHealthCheck(s)) =>
       /\ \A u \in Upstreams : Counters(metrics', u) = Counters(metrics, u)
       /\ \A s, u \in Upstreams :
            /\ Counters(markServerHealthy(metrics, s), u) = Counters(metrics, u)
            /\ Counters(markServerUnhealthy(metrics, s), u) = Counters(metrics, u)]_vars

C14_Witness ==
  /\ metrics["A"].totalRequests = 1
  /\ metrics["A"].errorCount = 0
  /\ metrics["A"].successRate = One
  /\ ~metrics["A"].isHealthy
  /\ healthChecks["A"] = [isHealthy |-> FALSE, errorMessage |-> RequestTimeout]

\* C15: every record of the Metrics Store has 0 <= errorCount <=
\* totalRequests, and after every recordRequest the record's successRate
\* equals 1 - errorCount/totalRequests.
C15_SuccessRateInvariant ==
  [][/\ \A s \in Upstreams :
          metrics'[s].present =>
            0 <= metrics'[s].errorCount /\ metrics'[s].errorCount <= metrics'[s].totalRequests
     /\ \A r \in Slots :
          (/\ req[r].op = "tools/call"
           /\ \/ DispatchReplyOk(r)
              \/ \E msg \in UpstreamErrors(req[r].op, req[r].name) : DispatchReplyErr(r, msg))
          => LET rec == metrics'[req[r].target]
             IN /\ rec.present
                /\ RateEq(rec.successRate,
                          successRateOf(rec.errorCount, rec.totalRequests))]_vars

\* C16: the reliabilityScore stored for a record is 0 when the record's
\* isHealthy is false and the record's successRate when it is true.
C16_ReliabilityNeverStale ==
  \A s \in Upstreams :
    metrics[s].present =>
      metrics[s].reliabilityScore =
        (IF metrics[s].isHealthy THEN metrics[s].successRate ELSE Zero)

C16_Witness ==
  \E s \in Upstreams :
    /\ metrics[s].present
    /\ ~metrics[s].isHealthy
    /\ metrics[s].totalRequests = 2
    /\ metrics[s].successRate = <<1, 2>>
    /\ metrics[s].reliabilityScore = Zero

\* C17: every descriptor in the result of a completed list request is the
\* descriptor some upstream that succeeded returned, with the machine
\* name unchanged and the display text equal to '[<upstream>] ' followed by
\* the upstream's original text - the prefix once, never twice.
C17_NamespacedOnce ==
  \A r \in Slots :
    req[r].pc = "done" /\ req[r].op \in ListOps =>
      \A d \in req[r].result :
        \E s \in Upstreams :
          /\ req[r].task[s].st = "ok"
          /\ d.name \in req[r].task[s].names
          /\ d.text = <<"[", s, "]">> \o OriginalText(d.name)
          /\ SubSeq(d.text, 4, Len(d.text)) = OriginalText(d.name)
          /\ ~ (Len(d.text) >= 6 /\ SubSeq(d.text, 4, 6) = <<"[", s, "]">>)

C17_Witness ==
  \E r \in Slots :
    /\ req[r].pc = "done"
    /\ req[r].op = "prompts/list"
    /\ [name |-> "t1", text |-> <<"[", "A", "]", "does", "t1">>] \in req[r].result
    /\ [name |-> "t1", text |-> <<"[", "Example Server 3", "]", "does", "t1">>]
         \in req[r].result

\* C18, as claimed: the step in which a targeted request fails with the
\* not-available error demotes no upstream: none goes from connected to
\* disconnected or from healthy to unhealthy, and no failure counter grows.
C18_RoutingMissDemotesNobody ==
  [][\A r \in Slots :
       (/\ req[r].pc # "done"
        /\ req'[r].pc = "done"
        /\ req'[r].op \in TargetOps
        /\ req'[r].error = NotAvailable(req'[r].op, req'[r].name))
       => \A s \in Upstreams :
            /\ isConnected[s] => isConnected'[s]
            /\ metrics[s].present /\ metrics[s].isHealthy => metrics'[s].isHealthy
            /\ failureCounts'[s] <= failureCounts[s]]_vars

\* C18, amended: a targeted request whose name is still missing when its
\* rebuild ends fails with the not-available error, and no step of a
\* rebuild changes isConnected, lastError or a HealthCheck record; but the
\* list calls of the rebuild run in the retry wrapper: an answer sets that
\* upstream's failure counter to 0, a connection-class failure adds 1 to it
\* and clears the upstream's isHealthy bit when the counter reaches 5, and
\* any other failure leaves counter and bit alone.
C18_RoutingMissRebuildEffects ==
  [][\A r \in Slots :
       /\ (/\ req[r].pc = "fanout"
           /\ req'[r].pc # "fanout"
           /\ req[r].op \in TargetOps
           /\ MapOf(KindOf(req[r].op))'[req[r].name] = NoClient)
          => /\ req'[r].pc = "done"
             /\ req'[r].outcome = "error"
             /\ req'[r].error = NotAvailable(req[r].op, req[r].name)
       /\ \A op \in TargetOps, n \in Names :
            StartTargeted(r, op, n) =>
              /\ UNCHANGED <<isConnected, lastError, healthChecks, failureCounts, metrics>>
              /\ (MapOf(KindOf(op))[n] = NoClient /\ req'[r].pc # "fanout") =>
                   /\ req'[r].pc = "done"
                   /\ req'[r].outcome = "error"
                   /\ req'[r].error = NotAvailable(op, n)
       /\ \A s \in Upstreams :
            FanoutReplyOk(r, s, offers[s]) /\ req[r].op \in TargetOps =>
              /\ UNCHANGED <<isConnected, lastError, healthChecks, metrics>>
              /\ failureCounts' = [failureCounts EXCEPT ![s] = 0]
       /\ \A s \in Upstreams : \A msg \in UpstreamErrors("list", "none") :
            FanoutReplyErr(r, s, msg) /\ req[r].op \in TargetOps =>
              /\ UNCHANGED <<isConnected, lastError, healthChecks>>
              /\ failureCounts' =
                   [failureCounts EXCEPT ![s] = IF isConnectionError(msg) THEN @ + 1 ELSE @]
              /\ \A u \in Upstreams : Counters(metrics', u) = Counters(metrics, u)
              /\ \A u \in Upstreams :
                   metrics'[u].isHealthy =
                     (/\ metrics[u].isHealthy
                      /\ ~(/\ u = s
                           /\ isConnectionError(msg)
                           /\ failureCounts'[s] >= maxConsecutiveFailures))]_vars

C18_Witness ==
  \E r \in Slots : \E s \in Upstreams :
    /\ req[r].pc = "done"
    /\ req[r].op = "resources/read"
    /\ req[r].error = NotAvailable(req[r].op, req[r].name)
    /\ req[r].task[s].st = "failed"
    /\ req[r].task[s].err = RequestTimeout
    /\ isConnected[s]
    /\ failureCounts[s] = 6
    /\ ~metrics[s].isHealthy

\* C19, as claimed: the error a targeted request ends with is the message
\* of the upstream's last failure, unchanged.
C19_OriginalMessagePreserved ==
  [][\A r \in Slots : \A msg \in UpstreamErrors(req[r].op, req[r].name) :
       DispatchReplyErr(r, msg) /\ req'[r].pc = "done" => req'[r].error = msg]_vars

\* C19, amended: the error a targeted request ends with is the message of
\* the upstream's last failure, unchanged, except that a tools/call
\* answered 'Tool <name> not found' ends with 'Tool <name> is not supported
\* by server <upstream>'.
C19_MessagePreservedButToolNotFound ==
  [][\A r \in Slots :
       /\ \A msg \in {ConnRefused, InvalidParams} :
            DispatchReplyErr(r, msg) /\ req'[r].pc = "done" =>
              req'[r].outcome = "error" /\ req'[r].error = msg
       /\ DispatchReplyErr(r, <<"Tool", req[r].name, "not", "found">>) =>
            /\ req'[r].pc = "done"
            /\ req'[r].outcome = "error"
            /\ req'[r].error =
                 IF req[r].op = "tools/call"
                   THEN <<"Tool", req[r].name, "is", "not", "supported", "by", "server",
                          req[r].target>>
                   ELSE <<"Tool", req[r].name, "not", "found">>]_vars

C19_Witness ==
  \E r \in Slots :
    /\ req[r].pc = "done"
    /\ req[r].op = "tools/call"
    /\ req[r].target = "Example Server 3"
    /\ req[r].error = <<"Tool", "t1", "is", "not", "supported", "by", "server",
                        "Example Server 3">>

\* the healthy candidates of the list handed to the selector
HealthyNames(list) == {list[i].serverName : i \in {j \in DOMAIN list : list[j].isHealthy}}

\* C20: whatever the strategy, the request and the candidate list, the
\* selector returns none or the name of a candidate whose isHealthy is true,
\* it returns none exactly when no candidate is healthy, and a strategy name
\* that is not registered selects what the adaptive strategy selects.
C20_SelectorReturnsHealthy ==
  [][/\ \A strategyName \in StrategyNames, request \in SelRequests :
          Select(strategyName, request) =>
            /\ selected' \in HealthyNames(servers) \cup {NoClient}
            /\ selected' = NoClient <=> HealthyNames(servers) = {}
     /\ \A request \in SelRequests :
          Select("fastest", request) =>
            selected' = selectServer("adaptive", request, servers, currentIndex).name]_vars

C20_Witness ==
  /\ Len(servers) = 3
  /\ ~servers[1].isHealthy
  /\ calculateOverallScore(servers[1]) > calculateOverallScore(servers[3])
  /\ servers[3].isHealthy
  /\ selected = "C"
  /\ currentIndex = 1

\* the record of the healthy candidate the selector returned
SelectedRecord(list, name) ==
  CHOOSE m \in {list[i] : i \in DOMAIN list} : m.serverName = name /\ m.isHealthy

\* C21: for every request and every candidate list with a healthy member,
\* the adaptive strategy returns a healthy candidate of minimal responseTime
\* when the request carries a timeout below 1000, of maximal successRate
\* when it does not and its priority is high, and of maximal overall score
\* otherwise.
C21_AdaptiveByRequestType ==
  [][\A request \in SelRequests :
       (Select("adaptive", request) /\ HealthyNames(servers) # {}) =>
         /\ selected' \in HealthyNames(servers)
         /\ LET healthyServers == healthyOnly(servers)
                chosen == SelectedRecord(servers, selected')
            IN \A i \in DOMAIN healthyServers :
                 IF request.hasTimeout /\ request.timeout < 1000
                   THEN chosen.responseTime <= healthyServers[i].responseTime
                   ELSE IF request.priority = "high"
                     THEN chosen.successRate >= healthyServers[i].successRate
                     ELSE calculateOverallScore(chosen)
                            >= calculateOverallScore(healthyServers[i])]_vars

\* C22: the names round-robin returned since the healthy set last changed
\* are members of the present healthy set (so the index stored before the
\* set shrank or grew still yields a valid member), each is followed by
\* its successor in the cyclic order of the healthy candidates, and any n
\* consecutive ones, n being the size of the healthy set, are n different
\* names.
C22_RoundRobinCycle ==
  LET healthyServers == healthyOnly(servers)
      n == Len(healthyServers)
  IN /\ \A j \in DOMAIN picks : picks[j] \in HealthyNames(servers)
     /\ \A j \in 1..(Len(picks) - 1) :
          \E k \in 1..n :
            /\ healthyServers[k].serverName = picks[j]
            /\ healthyServers[(k % n) + 1].serverName = picks[j + 1]
     /\ \A j \in 1..(Len(picks) - n + 1) :
          Cardinality({picks[i] : i \in j..(j + n - 1)}) = n

C22_Witness ==
  /\ Len(servers) = 3
  /\ ~servers[2].isHealthy
  /\ currentIndex = 0
  /\ picks = <<"A", "C", "A", "C">>

\* the outcome the health decision is claimed to record for a client with
\* these fields
HealthDecision(conn, lerr) ==
  IF ~conn
    THEN [isHealthy |-> FALSE,
          errorMessage |-> IF lerr # NoError THEN lerr ELSE ConnectionLost]
    ELSE IF lerr # NoError
      THEN [isHealthy |-> FALSE, errorMessage |-> lerr]
      ELSE [isHealthy |-> TRUE, errorMessage |-> NoError]

\* the HealthCheck record of s holds the claimed decision for these fields
\* and the health bit of the Metrics Store agrees with it
DecisionRecorded(s, conn, lerr, checks, store) ==
  /\ checks[s] = HealthDecision(conn, lerr)
  /\ store[s].present
  /\ store[s].isHealthy = checks[s].isHealthy

\* C23: a health check of an upstream - in the periodic cycle, by the
\* manual trigger, or by the trigger a handler's catch block runs after it
\* disconnected the upstream - records unhealthy with lastError as message
\* when isConnected is false, unhealthy when lastError is non-empty, and
\* healthy otherwise, in the HealthCheck record and in the health bit of
\* the Metrics Store, which agree after the step.
C23_HealthDecision ==
  [][/\ HealthCheckCycle =>
          \A s \in Upstreams :
            DecisionRecorded(s, isConnected[s], lastError[s], healthChecks', metrics')
     /\ \A s \in Upstreams :
          ManualHealthCheck(s) =>
            DecisionRecorded(s, isConnected[s], lastError[s], healthChecks', metrics')
     /\ \A r \in Slots, s \in Upstreams :
          (/\ req[r].pc \in {"fanout", "dispatch"}
           /\ req'[r] # req[r]
           /\ isConnected[s]
           /\ ~isConnected'[s]) =>
            DecisionRecorded(s, isConnected'[s], lastError'[s], healthChecks', metrics')]_vars

\* C26: for each of the four list operations, every list call in flight to
\* an upstream carries the cursor of the downstream request, and the result
\* returned carries it as nextCursor, whether or not any upstream was
\* connected.
C26_CursorEchoed ==
  \A r \in Slots :
    req[r].op \in ListOps =>
      /\ \A s \in Upstreams :
           req[r].task[s].st = "pending" => req[r].task[s].cursor = req[r].cursor
      /\ req[r].pc = "done" => req[r].nextCursor = req[r].cursor

\* C24: a health-check cycle checks every upstream - the HealthCheck record
\* of each one holds the decision for its own fields afterwards, whatever
\* the outcome for the others - and leaves the set of upstreams, every
\* isConnected and lastError, the failure counters and the three routing
\* tables as they were.
C24_CycleChecksAllChangesNone ==
  [][HealthCheckCycle =>
       /\ \A s \in Upstreams :
            healthChecks'[s] = HealthDecision(isConnected[s], lastError[s])
       /\ DOMAIN isConnected' = DOMAIN isConnected
       /\ isConnected' = isConnected
       /\ lastError' = lastError
       /\ failureCounts' = failureCounts
       /\ toolToClientMap' = toolToClientMap
       /\ promptToClientMap' = promptToClientMap
       /\ resourceToClientMap' = resourceToClientMap]_vars

C24_Witness ==
  /\ nev = 1
  /\ ~isConnected["A"]
  /\ isConnected["Example Server 3"]
  /\ ~healthChecks["A"].isHealthy
  /\ healthChecks["Example Server 3"].isHealthy
  /\ toolToClientMap["t1"] = "A"

\* C25: a list request that arrives when no upstream has isConnected true
\* returns at once with an empty listing and no error, and sends no list
\* call to any upstream: no task is started and no failure counter, health
\* record or connection field changes.
C25_AllUnavailableEmptyListing ==
  [][\A r \in Slots, op \in ListOps, cursor \in Cursors :
       (StartList(r, op, cursor) /\ \A s \in Upstreams : ~isConnected[s]) =>
         /\ req'[r].pc = "done"
         /\ req'[r].outcome = "ok"
         /\ req'[r].error = NoError
         /\ req'[r].result = {}
         /\ \A s \in Upstreams : req'[r].task[s].st = "none"
         /\ failureCounts' = failureCounts
         /\ healthChecks' = healthChecks
         /\ metrics' = metrics]_vars

C25_Witness ==
  \E r \in Slots :
    /\ req[r].pc = "done"
    /\ req[r].op = "resources/list"
    /\ req[r].outcome = "ok"
    /\ req[r].result = {}
    /\ nreq = 2
    /\ \A s \in Upstreams : ~isConnected[s] /\ req[r].task[s].st = "none"

\* C27: when a transport is created for a stdio server with an env
\* allow-list, the env given to the child process holds exactly the listed
\* names, each with its value in process.env, or with the empty string
\* when it is not set there.
C27_EnvAllowList ==
  boot.pc = "connecting" /\ config[boot.i].transport.type = "stdio"
                        /\ config[boot.i].transport.hasEnv =>
    /\ boot.hasEnv
    /\ boot.env = {<<config[boot.i].transport.env[k],
                     envValue(config[boot.i].transport.env[k])>> :
                     k \in DOMAIN config[boot.i].transport.env}

\* C28: createClients makes at most 3 connect attempts for a server and
\* none after one succeeded; a server is in the list returned exactly once,
\* with isConnected true, if an attempt for it succeeded, and not at all
\* otherwise; when createClients has returned every server was either
\* connected, tried 3 times, or had no transport, whatever happened to the
\* servers before it; and createClients returns in every run.
C28_ConnectionLifecycle ==
  /\ [](\A k \in DOMAIN config :
          /\ boot.attempts[k] <= 3
          /\ Cardinality({j \in DOMAIN boot.clients :
                            boot.clients[j].name = config[k].name})
               = IF boot.connected[k] THEN 1 ELSE 0
          /\ \A j \in DOMAIN boot.clients : boot.clients[j].isConnected
          /\ boot.pc = "returned" =>
               \/ boot.connected[k]
               \/ boot.attempts[k] = 3
               \/ ~createClient(config[k]).ok)
  /\ [][\A k \in DOMAIN config :
          boot.connected[k] => boot'.attempts[k] = boot.attempts[k]]_vars
  /\ <>(boot.pc = "returned")

C28_Witness ==
  /\ boot.pc = "returned"
  /\ Len(config) = 2
  /\ boot.attempts = <<3, 2>>
  /\ boot.connected = <<FALSE, TRUE>>
  /\ boot.clients = <<[name |-> "s2", isConnected |-> TRUE]>>

\* C29: a targeted request whose lookup hits upstream U at entry is
\* dispatched to U, and stays dispatched to U through every retry, whatever
\* another handler does to the routing table meanwhile; the result it
\* returns is U's.
C29_SnapshotAtEntry ==
  [][\A r \in Slots :
       /\ \A op \in TargetOps, n \in Names :
            (StartTargeted(r, op, n) /\ MapOf(KindOf(op))[n] # NoClient) =>
              req'[r].pc = "dispatch" /\ req'[r].target = MapOf(KindOf(op))[n]
       /\ (req[r].pc = "dispatch" /\ req'[r].pc = "dispatch") =>
            req'[r].target = req[r].target /\ req'[r].name = req[r].name
       /\ DispatchReplyOk(r) => req'[r].result = {ResultOf(req[r].target, req[r].name)}]_vars

C29_Witness ==
  \E r \in Slots :
    /\ req[r].pc = "dispatch"
    /\ ~req[r].rebuilt
    /\ req[r].attempt = 1
    /\ req[r].target = "A"
    /\ toolToClientMap[req[r].name] = "Example Server 3"

\* C30: the attempt whose timer fires counts as a failure - the task or
\* the request does not succeed by it, the failure counter of the upstream
\* grows by one, and tools/call records no success - and the response that
\* arrives after it changes neither a routing table, nor any request or
\* its result, nor the Metrics Store, nor a failure counter.
C30_LateCompletionsDiscarded ==
  [][\A r \in Slots :
       /\ \A s \in Upstreams :
            /\ LateCompletion(r, s) =>
                 /\ toolToClientMap' = toolToClientMap
                 /\ promptToClientMap' = promptToClientMap
                 /\ resourceToClientMap' = resourceToClientMap
                 /\ req' = req
                 /\ metrics' = metrics
                 /\ failureCounts' = failureCounts
            /\ FanoutTimeout(r, s) =>
                 /\ req'[r].task[s].st \in {"pending", "failed"}
                 /\ \A d \in req'[r].result : d.text # Namespaced(s, OriginalText(d.name))
                 /\ failureCounts'[s] = failureCounts[s] + 1
                 /\ toolToClientMap' = toolToClientMap
       /\ DispatchTimeout(r) =>
            /\ req'[r].outcome # "ok"
            /\ req'[r].result = {}
            /\ failureCounts'[req[r].target] = failureCounts[req[r].target] + 1
            /\ metrics'[req[r].target].totalRequests - metrics'[req[r].target].errorCount
                 <= metrics[req[r].target].totalRequests - metrics[req[r].target].errorCount]_vars

C30_Witness ==
  /\ req["r1"].pc = "done"
  /\ req["r1"].op = "tools/list"
  /\ req["r1"].task["A"].err = RequestTimeout
  /\ req["r1"].task["Example Server 3"].st = "ok"
  /\ "t1" \in offers["A"]
  /\ toolToClientMap["t1"] = NoClient
  /\ late = {}

\* the counters of a server's record, a server without a record counting as 0
SampleCount(m, s) == IF m[s].present THEN m[s].totalRequests ELSE 0

ErrorSampleCount(m, s) == IF m[s].present THEN m[s].errorCount ELSE 0

\* C31: no sample is lost: every attempt of a tools/call that completes
\* (each one calls recordRequest once) leaves a record for the upstream whose
\* totalRequests is exactly 1 higher and whose errorCount is 1 higher iff the
\* attempt failed, also when the cleanup tick had evicted the record before
C31_NoLostSample ==
  [][\A r \in Slots :
       (req[r].op = "tools/call" /\ req[r].pc = "dispatch" /\ req'[r] # req[r]) =>
         LET s == req[r].target
             failed == req'[r].outcome # "ok"
         IN /\ metrics'[s].present
            /\ SampleCount(metrics', s) = SampleCount(metrics, s) + 1
            /\ ErrorSampleCount(metrics', s) =
                 ErrorSampleCount(metrics, s) + (IF failed THEN 1 ELSE 0)]_vars

\* C32: a name listed by two upstreams that both succeed: the listing
\* returned holds the descriptor of each of them, the routing table maps the
\* name to the upstream whose listing was processed last, and a later
\* tools/call that finds the entry is dispatched to that upstream
C32_DuplicateNamesLastWriterWins ==
  [][\A r \in Slots :
       /\ \A s \in Upstreams :
            (/\ req[r].op = "tools/list"
             /\ req[r].pc = "fanout"
             /\ req[r].task[s].st = "pending"
             /\ req'[r].task[s].st = "ok") =>
              /\ \A n \in offers[s] : toolToClientMap'[n] = s
              /\ req'[r].pc = "done" =>
                   \A u \in Upstreams :
                     req'[r].task[u].st = "ok" =>
                       \A n \in offers[u] : Descriptor(u, n) \in req'[r].result
       /\ \A n \in Names :
            (/\ req[r].pc \in {"idle", "done"}
             /\ req'[r].pc # req[r].pc
             /\ req'[r].op = "tools/call"
             /\ req'[r].name = n
             /\ toolToClientMap[n] # NoClient) =>
              /\ req'[r].pc = "dispatch"
              /\ req'[r].target = toolToClientMap[n]]_vars

\* a listing with both descriptors of a duplicated name has been returned and
\* the table maps the name to one of the two upstreams
C32_Witness ==
  \E r \in Slots, n \in Names :
    /\ req[r].op = "tools/list"
    /\ req[r].pc = "done"
    /\ \A s \in Upstreams : req[r].task[s].st = "ok" /\ n \in req[r].task[s].names
    /\ {Descriptor(s, n) : s \in Upstreams} \subseteq req[r].result
    /\ Cardinality(req[r].result) = 2
    /\ toolToClientMap[n] = "A"

\* C33: in every reachable state, those after a cleanup tick included, every
\* upstream of the upstream list has its MetricsRecord (with the quality
\* score kept in it)
C33_OneRecordPerUpstream == \A s \in Upstreams : metrics[s].present

\* C34: an upstream whose lastError is set is not connected: every writer of
\* lastError clears isConnected in the same step and nothing sets it again
C34_LastErrorImpliesDisconnected ==
  \A s \in Upstreams : lastError[s] # NoError => ~isConnected[s]

\* the transport of an upstream has reported an error
C34_Witness ==
  \E s \in Upstreams : nev = 1 /\ lastError[s] = ConnRefused /\ ~isConnected[s]

\* the steps that may take an entry out of a routing table or point it at
\* another upstream: the clear at the start of a list request or of a rebuild,
\* the listing of a fan-out task, the eviction after a tool-not-found error
EntryMayChange(r) ==
  \/ req[r].pc \in {"idle", "done"} /\ req'[r].pc \in {"fanout", "done"} /\ nreq' = nreq + 1
  \/ req[r].pc = "fanout" /\ \E s \in Upstreams :
       req[r].task[s].st = "pending" /\ req'[r].task[s].st = "ok"
  \/ /\ req[r].pc = "dispatch"
     /\ req[r].op = "tools/call"
     /\ req'[r].pc = "done"
     /\ req'[r].error = NotSupported(req[r].name, req[r].target)

\* C35: a targeted request that finds an entry is dispatched to the upstream
\* of the entry whatever that upstream's isConnected flag and health say, and
\* an entry stays as it is - through the demotion of its upstream too - until
\* a clear, a new listing or a tool-not-found eviction
C35_RoutingIgnoresHealth ==
  [][/\ \A r \in Slots :
          (/\ req[r].pc \in {"idle", "done"}
           /\ nreq' = nreq + 1
           /\ req'[r].op \in TargetOps
           /\ req'[r] # req[r]
           /\ MapOf(KindOf(req'[r].op))[req'[r].name] # NoClient) =>
            /\ req'[r].pc = "dispatch"
            /\ req'[r].target = MapOf(KindOf(req'[r].op))[req'[r].name]
            /\ mapVars' = mapVars
     /\ (mapVars' # mapVars) => \E r \in Slots : EntryMayChange(r)
     /\ (isConnected' # isConnected) => mapVars' = mapVars]_vars

\* a call has been dispatched on the entry of an upstream that is marked
\* disconnected and unhealthy
C35_Witness ==
  \E r \in Slots :
    /\ req[r].pc = "dispatch"
    /\ ~req[r].rebuilt
    /\ ~isConnected[req[r].target]
    /\ toolToClientMap[req[r].name] = req[r].target

\* C36: tools/call takes one sample per attempt: each attempt that ends
\* raises totalRequests of the upstream by 1 and its errorCount by 1 iff the
\* attempt failed (so k attempts raise totalRequests by k), and each attempt
\* that failed with a connection-class error raises the consecutive-failure
\* counter by 1
C36_SamplePerAttempt ==
  [][\A r \in Slots :
       (req[r].op = "tools/call" /\ req[r].pc = "dispatch" /\ req'[r] # req[r]) =>
         LET s == req[r].target
             ok == req'[r].outcome = "ok"
             retried == req'[r].pc = "dispatch"
             connErr == \/ retried
                        \/ ~ok /\ isConnectionError(req'[r].error)
         IN /\ SampleCount(metrics', s) = SampleCount(metrics, s) + 1
            /\ ErrorSampleCount(metrics', s) =
                 ErrorSampleCount(metrics, s) + (IF ok THEN 0 ELSE 1)
            /\ retried => req'[r].attempt = req[r].attempt + 1
            /\ connErr => failureCounts'[s] = failureCounts[s] + 1]_vars

\* the routing table of a kind after the step
MapAfter(kind) ==
  CASE kind = "tool" -> toolToClientMap'
    [] kind = "prompt" -> promptToClientMap'
    [] kind = "resource" -> resourceToClientMap'
    [] OTHER -> EmptyMap

\* C37: the rebuild after a lookup miss starts by clearing the whole table
\* of that kind, and when the rebuild has ended the table holds exactly the
\* names listed by the upstreams that answered during this rebuild: an entry
\* from before the miss whose upstream failed, timed out or was disconnected
\* is gone
C37_RebuildClearsTable ==
  [][\A r \in Slots :
       /\ (/\ req[r].pc \in {"idle", "done"}
           /\ req'[r].rebuilt
           /\ req'[r] # req[r]
           /\ req'[r].pc = "fanout") =>
            MapAfter(KindOf(req'[r].op)) = EmptyMap
       /\ (/\ req'[r].rebuilt
           /\ req'[r] # req[r]
           /\ req'[r].pc # "fanout") =>
            \A n \in AllNames :
              LET holder == MapAfter(KindOf(req'[r].op))[n]
                  listers == {s \in Upstreams :
                                req'[r].task[s].st = "ok" /\ n \in req'[r].task[s].names}
              IN IF listers = {} THEN holder = NoClient ELSE holder \in listers]_vars

\* a tools/call for t1 was served by A from the entry t1 -> A; the next call
\* asked for a name nobody lists, A failed in the rebuild, and the entry of
\* t1 is gone
C37_Witness ==
  \E r \in Slots :
    /\ nreq = 2
    /\ req[r].op = "tools/call"
    /\ req[r].name = "t2"
    /\ req[r].rebuilt
    /\ req[r].pc = "done"
    /\ req[r].task["A"].st = "failed"
    /\ metrics["A"].totalRequests = 1
    /\ metrics["A"].errorCount = 0
    /\ "t1" \in offers["A"]
    /\ toolToClientMap["t1"] = NoClient

\* C38: the eviction after a tool-not-found error takes out only an entry
\* of the upstream that reported the error: when the name is mapped to
\* another upstream by then (a concurrent tools/list remapped it), the entry
\* stays
C38_EvictionOnlyOfReporter ==
  [][\A r \in Slots :
       (/\ req[r].op = "tools/call"
        /\ req[r].pc = "dispatch"
        /\ req'[r].pc = "done"
        /\ req'[r].error = NotSupported(req[r].name, req[r].target)
        /\ toolToClientMap[req[r].name] # req[r].target) =>
         toolToClientMap'[req[r].name] = toolToClientMap[req[r].name]]_vars

\* C39: whatever other requests are in flight, a tools/call does not end
\* with the 'not available on any connected server' error when an upstream
\* that is still connected answered the rebuild of the call with a listing
\* that holds the tool
C39_NoSpuriousNotAvailable ==
  [][\A r \in Slots :
       (/\ req[r].op = "tools/call"
        /\ req[r].pc = "fanout"
        /\ req'[r].pc = "done"
        /\ req'[r].error = NotAvailable(req[r].op, req[r].name)) =>
         ~ \E s \in Upstreams :
             /\ isConnected'[s]
             /\ req[r].name \in offers[s]
             /\ req'[r].task[s].st = "ok"
             /\ req[r].name \in req'[r].task[s].names]_vars

\* C40: an upstream that the retry wrapper marked unhealthy when its
\* consecutive-failure counter reached maxConsecutiveFailures stays unhealthy
\* as long as no request to it succeeds (the counter is not reset): a
\* health check that finds it connected does not mark it healthy again
C40_DemotionLasts ==
  [][\A s \in Upstreams :
       (/\ failureCounts[s] >= maxConsecutiveFailures
        /\ metrics[s].present
        /\ ~metrics[s].isHealthy
        /\ failureCounts'[s] >= maxConsecutiveFailures
        /\ metrics'[s].present) =>
         ~metrics'[s].isHealthy]_vars

====
